---- MODULE Spec2Model ----
(***************************************************************************)
(* A model of the design-pattern demonstrations of the repository.  Every  *)
(* demonstration is an independent program: it has its own variables, its  *)
(* own actions and its own specification (SpecChain, SpecCommand, ...).    *)
(* A specification leaves the variables of the other programs unchanged.   *)
(***************************************************************************)
EXTENDS Integers, Sequences, FiniteSets, TLC

VARIABLES
  \* chain of responsibility (src/Behavioral/chainOfResponsibility.ts 1-112)
  nextHandler,   \* AbstractHandler.nextHandler of each handler object
  setNextRet,    \* what the last setNext call returned
  hStatus,       \* "idle", or how the last handle call ended
  hEntry,        \* the handler the last handle call was made on
  hRequest,      \* the request of the last handle call
  hResult,       \* the value the last handle call returned
  hChecked,      \* the handlers whose handle ran during the last call, in order
  hLinks,        \* the successor links as they were when the last call was made
  \* command (src/Behavioral/chainOfResponsibility.ts 187-416)
  onStart,       \* Invoker.onStart
  onFinish,      \* Invoker.onFinish
  receiveItems,  \* SalesDepartment.receiveItems
  sendItem,      \* SalesDepartment.sendItem
  cmdOp,         \* the last operation invoked on an invoker
  cmdSlots,      \* the command slots as they were when it was invoked
  cmdExecuted,   \* the commands that operation executed, in order
  cmdConsole,    \* the lines that operation printed
  cmdError,      \* "none", or the error that operation threw
  \* iterator (src/Behavioral/chainOfResponsibility.ts 419-448)
  rArgs,         \* the arguments range was called with, <<>> before the call
  rStart,        \* the closure variable start, which next() advances
  rEnd,          \* the closure variable end
  rStep,         \* the closure variable step
  rTraversal,    \* how many times [Symbol.iterator]() was called on the object
  rLog,          \* the results of the next() calls so far, in order
  \* singleton (src/unnamed/part_000)
  instance,      \* the static field ApplicationSettings.instance, 0 while undefined
  constructed,   \* how many ApplicationSettings objects were constructed
  sCalls,        \* the getInstance() calls so far: the caller and what it got
  \* flyweight (src/unnamed/part_002)
  fClass,        \* the class of the factory, "none" before it is constructed
  fInitial,      \* the initial states the factory was constructed with
  flyweights,    \* the cache: own property name -> reference
  fHeap,         \* the shared state of each flyweight object constructed, by id
  fCalls,        \* the getFlyweight calls so far, in order
  fCount,        \* the count listFlyweights printed last, -1 before
  \* observer (src/Behavioral/observer.ts 1-14)
  observers,     \* the callbacks subscribed to the subject news, in order
  oEmits,        \* the news.next(v) calls so far, with what each call printed
  oConsole,      \* the lines the program printed so far
  \* template method (src/Behavioral/observer.ts 35-197)
  tRuns,         \* the templateMethod() calls so far, with the steps each ran
  tConsole,      \* the lines those calls printed so far
  mResult,       \* MathematicalOperation.result of the last operation, 0 before
  mConsole,      \* the lines the last mathematical operation printed
  \* chain of responsibility, the buffets (src/Behavioral/chainOfResponsibility.ts 113-186)
  nextBuffet,    \* AbstractBuffet.nextBuffet of each buffet object
  passRet,       \* what the last passToNextBuffet call returned
  menu,          \* AbstractBuffet.menu of each buffet object
  bStatus,       \* "idle", or how the last addToMenu call ended
  bEntry,        \* the buffet the last addToMenu call was made on
  bFood,         \* the food of the last addToMenu call
  bResult,       \* the value the last addToMenu call returned
  bChecked,      \* the buffets whose addToMenu ran during the last call, in order
  bLinks,        \* the successor links as they were when the last call was made
  bMenus,        \* the menus as they were when the last call was made
  \* facade (src/Structural/facade.ts)
  houseOps,      \* the operations called on the house so far, with the calls each made
  subsystemCalls, \* the calls made on the subsystems so far, in order
  \* proxy (src/unnamed/part_003)
  originalObject, \* the target object: the value of each property
  pAccess,       \* the last access through reactiveObject, and what it did
  \* state (src/Behavioral/observer.ts, lines 20-34)
  humanState,    \* the class of the state object each Human holds; undefined before construction
  replaced,      \* the Humans whose state field was assigned after construction
  thoughts,      \* the think() calls made: the states before and after, and the value returned
  \* factory (src/Creational/factory.ts, lines 6-21)
  buttons,       \* the buttons created: the os asked for and the class returned
  \* abstract factory (src/Creational/abstractFactory.ts)
  alienEnemyFactory, \* the class of the factory createAlienEnemyFactory returned, if called
  zombieEnemyFactory, \* the class of the factory createZombieEnemyFactory returned, if called
  enemies,       \* the enemies created: the factory's class, the type asked for, the class returned
  \* builder (src/Creational/builder.ts)
  hamburgers,    \* the fields of each Hamburger constructed
  lastAdd,       \* the last add call: the method, its receiver, what it returned, the objects before and after
  \* visitor (src/Behavioral/visitor.ts, lines 1-113)
  visit          \* the last accept or clientCode call: its arguments, the visitor methods invoked, the lines printed

chainVars == <<nextHandler, setNextRet, hStatus, hEntry, hRequest, hResult, hChecked,
               hLinks>>
commandVars == <<onStart, onFinish, receiveItems, sendItem, cmdOp, cmdSlots, cmdExecuted,
                 cmdConsole, cmdError>>

rangeVars == <<rArgs, rStart, rEnd, rStep, rTraversal, rLog>>

singletonVars == <<instance, constructed, sCalls>>
flyweightVars == <<fClass, fInitial, flyweights, fHeap, fCalls, fCount>>

observerVars == <<observers, oEmits, oConsole>>
templateVars == <<tRuns, tConsole, mResult, mConsole>>

buffetVars == <<nextBuffet, passRet, menu, bStatus, bEntry, bFood, bResult, bChecked, bLinks,
                bMenus>>

facadeVars == <<houseOps, subsystemCalls>>

proxyVars == <<originalObject, pAccess>>

humanVars == <<humanState, replaced, thoughts>>

factoryVars == <<buttons>>

abstractFactoryVars == <<alienEnemyFactory, zombieEnemyFactory, enemies>>

builderVars == <<hamburgers, lastAdd>>

visitorVars == <<visit>>

vars == <<chainVars, commandVars, rangeVars, singletonVars, flyweightVars, observerVars,
          templateVars, buffetVars, facadeVars, proxyVars, humanVars, factoryVars,
          abstractFactoryVars, builderVars, visitorVars>>

\* what each program leaves alone: the variables of the other programs
chainOthers == <<commandVars, rangeVars, singletonVars, flyweightVars, observerVars,
                 templateVars, buffetVars, facadeVars, proxyVars, humanVars, factoryVars,
                 abstractFactoryVars, builderVars, visitorVars>>
commandOthers == <<chainVars, rangeVars, singletonVars, flyweightVars, observerVars,
                   templateVars, buffetVars, facadeVars, proxyVars, humanVars, factoryVars,
                   abstractFactoryVars, builderVars, visitorVars>>
rangeOthers == <<chainVars, commandVars, singletonVars, flyweightVars, observerVars,
                 templateVars, buffetVars, facadeVars, proxyVars, humanVars, factoryVars,
                 abstractFactoryVars, builderVars, visitorVars>>
singletonOthers == <<chainVars, commandVars, rangeVars, flyweightVars, observerVars,
                     templateVars, buffetVars, facadeVars, proxyVars, humanVars,
                     factoryVars, abstractFactoryVars, builderVars, visitorVars>>
flyweightOthers == <<chainVars, commandVars, rangeVars, singletonVars, observerVars,
                     templateVars, buffetVars, facadeVars, proxyVars, humanVars,
                     factoryVars, abstractFactoryVars, builderVars, visitorVars>>
observerOthers == <<chainVars, commandVars, rangeVars, singletonVars, flyweightVars,
                    templateVars, buffetVars, facadeVars, proxyVars, humanVars,
                    factoryVars, abstractFactoryVars, builderVars, visitorVars>>
templateOthers == <<chainVars, commandVars, rangeVars, singletonVars, flyweightVars,
                    observerVars, buffetVars, facadeVars, proxyVars, humanVars,
                    factoryVars, abstractFactoryVars, builderVars, visitorVars>>
buffetOthers == <<chainVars, commandVars, rangeVars, singletonVars, flyweightVars,
                  observerVars, templateVars, facadeVars, proxyVars, humanVars,
                  factoryVars, abstractFactoryVars, builderVars, visitorVars>>
facadeOthers == <<chainVars, commandVars, rangeVars, singletonVars, flyweightVars,
                  observerVars, templateVars, buffetVars, proxyVars, humanVars,
                  factoryVars, abstractFactoryVars, builderVars, visitorVars>>
proxyOthers == <<chainVars, commandVars, rangeVars, singletonVars, flyweightVars,
                 observerVars, templateVars, buffetVars, facadeVars, humanVars,
                 factoryVars, abstractFactoryVars, builderVars, visitorVars>>
humanOthers == <<chainVars, commandVars, rangeVars, singletonVars, flyweightVars,
                 observerVars, templateVars, buffetVars, facadeVars, proxyVars,
                 factoryVars, abstractFactoryVars, builderVars, visitorVars>>
factoryOthers == <<chainVars, commandVars, rangeVars, singletonVars, flyweightVars,
                   observerVars, templateVars, buffetVars, facadeVars, proxyVars,
                   humanVars, abstractFactoryVars, builderVars, visitorVars>>
abstractFactoryOthers == <<chainVars, commandVars, rangeVars, singletonVars, flyweightVars,
                           observerVars, templateVars, buffetVars, facadeVars, proxyVars,
                           humanVars, factoryVars, builderVars, visitorVars>>
builderOthers == <<chainVars, commandVars, rangeVars, singletonVars, flyweightVars,
                   observerVars, templateVars, buffetVars, facadeVars, proxyVars,
                   humanVars, factoryVars, abstractFactoryVars, visitorVars>>
visitorOthers == <<chainVars, commandVars, rangeVars, singletonVars, flyweightVars,
                   observerVars, templateVars, buffetVars, facadeVars, proxyVars,
                   humanVars, factoryVars, abstractFactoryVars, builderVars>>

\* JavaScript's undefined and null, as seen where a string or a handler is expected
Undefined == "undefined"
Null == "null"

(***************************************************************************)
(* Chain of responsibility                                                 *)
(***************************************************************************)

\* the three handler objects the driver constructs
Handlers == {"Monkey", "Squirrel", "Dog"}

\* the requests of clientCode, and the one only the Dog accepts
Requests == {"Nut", "Banana", "Cup of coffee", "MeatBall"}

\* the depth of nested handle calls the engine's call stack allows
MaxStack == 4

\* what a handle call gives back: a returned value, or a thrown error
Return(v) == [value |-> v, checked |-> <<>>, error |-> "none"]
Throw(e) == [value |-> Null, checked |-> <<>>, error |-> e]

RECURSIVE handle(_, _, _, _)

\* a base handler that drops the request instead of forwarding it
AbstractHandler_handle_NoForward(nh, this, request, depth) == Return(Null)

\* a base handler that forwards the request to itself
AbstractHandler_handle_Self(nh, this, request, depth) ==
  IF nh[this] # Undefined
    THEN handle(nh, this, request, depth + 1)
    ELSE Return(Null)

AbstractHandler_handle(nh, this, request, depth) ==
  IF nh[this] # Undefined
    THEN handle(nh, nh[this], request, depth + 1)
    ELSE Return(Null)

MonkeyHandler_handle(nh, this, request, depth) ==
  IF request = "Banana"
    THEN Return("Monkey: I'll eat the " \o request \o ".")
    ELSE AbstractHandler_handle(nh, this, request, depth)

SquirrelHandler_handle(nh, this, request, depth) ==
  IF request = "Nut"
    THEN Return("Squirrel: I'll eat the " \o request \o ".")
    ELSE AbstractHandler_handle(nh, this, request, depth)

DogHandler_handle(nh, this, request, depth) ==
  IF request = "MeatBall"
    THEN Return("Dog: I'll eat the " \o request \o ".")
    ELSE AbstractHandler_handle(nh, this, request, depth)

\* handler.handle(request): the call is dispatched on the class of the handler;
\* a call nested deeper than the call stack allows throws a RangeError
handle(nh, this, request, depth) ==
  IF depth > MaxStack
    THEN Throw("RangeError")
    ELSE LET r == CASE this = "Monkey" -> MonkeyHandler_handle(nh, this, request, depth)
                    [] this = "Squirrel" -> SquirrelHandler_handle(nh, this, request, depth)
                    [] this = "Dog" -> DogHandler_handle(nh, this, request, depth)
         IN [r EXCEPT !.checked = <<this>> \o @]

ChainInit ==
  /\ nextHandler = [h \in Handlers |-> Undefined]
  /\ setNextRet = Undefined
  /\ hStatus = "idle"
  /\ hEntry = Undefined
  /\ hRequest = Undefined
  /\ hResult = Undefined
  /\ hChecked = <<>>
  /\ hLinks = [h \in Handlers |-> Undefined]

\* this.setNext(handler)
SetNext(this, handler) ==
  /\ nextHandler' = [nextHandler EXCEPT ![this] = handler]
  /\ setNextRet' = handler
  /\ UNCHANGED <<hStatus, hEntry, hRequest, hResult, hChecked, hLinks>>
  /\ UNCHANGED chainOthers

\* a handle call that consumes the link it followed
Handle_Unlink(this, request) ==
  LET r == handle(nextHandler, this, request, 1) IN
  /\ hStatus' = IF r.error = "none" THEN "returned" ELSE r.error
  /\ hEntry' = this
  /\ hRequest' = request
  /\ hResult' = r.value
  /\ hChecked' = r.checked
  /\ hLinks' = nextHandler
  /\ nextHandler' = [nextHandler EXCEPT ![this] = Undefined]
  /\ UNCHANGED setNextRet
  /\ UNCHANGED chainOthers

\* const result = handler.handle(food), as in clientCode
Handle(this, request) ==
  LET r == handle(nextHandler, this, request, 1) IN
  /\ hStatus' = IF r.error = "none" THEN "returned" ELSE r.error
  /\ hEntry' = this
  /\ hRequest' = request
  /\ hResult' = r.value
  /\ hChecked' = r.checked
  /\ hLinks' = nextHandler
  /\ UNCHANGED <<nextHandler, setNextRet>>
  /\ UNCHANGED chainOthers

ChainNext ==
  \/ \E this \in Handlers, handler \in Handlers : SetNext(this, handler)
  \/ \E this \in Handlers, request \in Requests : Handle(this, request)

\* monkey.setNext(squirrel).setNext(dog): the chain Monkey -> Squirrel -> Dog
DriverLinks == [h \in Handlers |-> CASE h = "Monkey" -> "Squirrel"
                                      [] h = "Squirrel" -> "Dog"
                                      [] h = "Dog" -> Undefined]
ChainOrder == <<"Monkey", "Squirrel", "Dog">>
Position(h) == CHOOSE i \in 1..3 : ChainOrder[i] = h
\* the success string of each handler, for the one request it accepts
Accepted == [h \in Handlers |-> CASE h = "Monkey" -> "Banana"
                                   [] h = "Squirrel" -> "Nut"
                                   [] h = "Dog" -> "MeatBall"]
Success == [h \in Handlers |-> CASE h = "Monkey" -> "Monkey: I'll eat the Banana."
                                  [] h = "Squirrel" -> "Squirrel: I'll eat the Nut."
                                  [] h = "Dog" -> "Dog: I'll eat the MeatBall."]
\* the handlers at or after the entry handler, in chain order, that accept the request
Accepting(entry, request) ==
  {i \in Position(entry)..3 : Accepted[ChainOrder[i]] = request}
First(S) == CHOOSE i \in S : \A j \in S : i <= j

\* C1: in the chain Monkey -> Squirrel -> Dog, handle(R) on any handler returns
\* the success string of the first handler at or after the entry handler that
\* accepts R, and null when no handler from the entry handler onward accepts R.
C1_FirstAcceptingHandlerAnswers ==
  (hStatus # "idle" /\ hLinks = DriverLinks) =>
    /\ hStatus = "returned"
    /\ IF Accepting(hEntry, hRequest) = {}
         THEN hResult = Null
         ELSE hResult = Success[ChainOrder[First(Accepting(hEntry, hRequest))]]

\* a request was passed from the Monkey to the Dog, and another one was left untouched
C1_Witness ==
  /\ hLinks = DriverLinks /\ hStatus = "returned" /\ hEntry = "Monkey"
  /\ \/ hRequest = "MeatBall" /\ hResult = "Dog: I'll eat the MeatBall."
        /\ hChecked = <<"Monkey", "Squirrel", "Dog">>
     \/ hRequest = "Cup of coffee" /\ hResult = Null
        /\ hChecked = <<"Monkey", "Squirrel", "Dog">>

\* the handlers met by following the links from h, for at most n steps
RECURSIVE Walk(_, _, _)
Walk(links, h, n) ==
  IF n = 0 THEN <<>>
  ELSE <<h>> \o (IF links[h] = Undefined THEN <<>> ELSE Walk(links, links[h], n - 1))
NoRepeat(s) == \A i \in 1..Len(s) : \A j \in 1..Len(s) : s[i] = s[j] => i = j
\* following the links from the entry handler meets no handler twice
Acyclic(links, entry) == NoRepeat(Walk(links, entry, Cardinality(Handlers) + 1))
\* a handler met from the entry handler accepts the request
SomeAccepts(links, entry, request) ==
  \E i \in 1..Len(Walk(links, entry, Cardinality(Handlers))) :
    Accepted[Walk(links, entry, Cardinality(Handlers))[i]] = request

NoCommand == [class |-> "undefined"]

\* the commands of the drivers
SimpleCommand(payload) == [class |-> "SimpleCommand", payload |-> payload]
ComplexCommand(a, b) == [class |-> "ComplexCommand", a |-> a, b |-> b]
ReceiveItems(items) == [class |-> "ReceiveItems", items |-> items]
SendItem(actions, address) ==
  [class |-> "SendItem", clientSpecificActions |-> actions, clientAddress |-> address]

Commands == {SimpleCommand("Say Hi!"), ComplexCommand("Send email", "Save report")}
AdministrativeActions ==
  {ReceiveItems(<<"item1", "item2", "item3">>),
   SendItem(<<"Notify through Email", "Add special gift card">>, "Some Address in NY")}

\* the lines of Array.forEach(x => console.log(pre + x + post))
RECURSIVE ForEachLine(_, _, _)
ForEachLine(xs, pre, post) ==
  IF xs = <<>> THEN <<>>
  ELSE <<pre \o Head(xs) \o post>> \o ForEachLine(Tail(xs), pre, post)

\* command.execute() / adminAction.performAdministrativeAction(): the lines printed
execute(c) ==
  CASE c.class = "SimpleCommand" ->
         <<"SimpleCommand: See, I can do simple things like printing (" \o c.payload \o ")">>
    [] c.class = "ComplexCommand" ->
         <<"ComplexCommand: Complex stuff should be done by a receiver object.",
           "Receiver: Working on (" \o c.a \o ".)",
           "Receiver: Also working on (" \o c.b \o ".)">>
    [] c.class = "ReceiveItems" ->
         <<"Receiving items...", "Items received.", "Adding items to DB.">>
         \o ForEachLine(c.items, "Item: ", " has been added to the DB")
    [] c.class = "SendItem" ->
         <<"ComplexCommand: Complex stuff should be done by a client object.">>
         \o ForEachLine(c.clientSpecificActions, "Action: ", " has been performed")
         \o <<"Client with address " \o c.clientAddress
                \o " has been notified about the delivery",
              "Sending Item...",
              "Item has been sent to client: [object Object]">>

\* Invoker.isCommand / SalesDepartment.isCommand: object.execute !== undefined.
\* Reading a property of undefined throws a TypeError.
isCommand(object) ==
  IF object = NoCommand THEN "TypeError" ELSE "true"

\* a run of an invoker operation so far, and the steps that extend it
Run0 == [console |-> <<>>, executed |-> <<>>, error |-> "none"]
Log(run, line) ==
  IF run.error # "none" THEN run ELSE [run EXCEPT !.console = @ \o <<line>>]
\* if (this.isCommand(slot)) { slot.execute(); }
ExecuteIfCommand(run, slot) ==
  IF run.error # "none" THEN run
  ELSE CASE isCommand(slot) = "TypeError" -> [run EXCEPT !.error = "TypeError"]
         [] isCommand(slot) = "true" ->
              [run EXCEPT !.console = @ \o execute(slot), !.executed = Append(@, slot)]
         [] isCommand(slot) = "false" -> run

CommandInit ==
  /\ onStart = NoCommand
  /\ onFinish = NoCommand
  /\ receiveItems = NoCommand
  /\ sendItem = NoCommand
  /\ cmdOp = "none"
  /\ cmdSlots = [onStart |-> NoCommand, onFinish |-> NoCommand,
                 receiveItems |-> NoCommand, sendItem |-> NoCommand]
  /\ cmdExecuted = <<>>
  /\ cmdConsole = <<>>
  /\ cmdError = "none"

Ran(op, run) ==
  /\ cmdOp' = op
  /\ cmdSlots' = [onStart |-> onStart, onFinish |-> onFinish,
                  receiveItems |-> receiveItems, sendItem |-> sendItem]
  /\ cmdExecuted' = run.executed
  /\ cmdConsole' = run.console
  /\ cmdError' = run.error

SetOnStart(command) ==
  /\ onStart' = command
  /\ UNCHANGED <<onFinish, receiveItems, sendItem, cmdOp, cmdSlots, cmdExecuted, cmdConsole,
               cmdError>>
  /\ UNCHANGED commandOthers

SetOnFinish(command) ==
  /\ onFinish' = command
  /\ UNCHANGED <<onStart, receiveItems, sendItem, cmdOp, cmdSlots, cmdExecuted, cmdConsole,
               cmdError>>
  /\ UNCHANGED commandOthers

DoSomethingImportant ==
  LET r1 == Log(Run0, "Invoker: Does anybody want something done before I begin?")
      r2 == ExecuteIfCommand(r1, onStart)
      r3 == Log(r2, "Invoker: ...doing something really important...")
      r4 == Log(r3, "Invoker: Does anybody want something done after I finish?")
      r5 == ExecuteIfCommand(r4, onFinish)
  IN /\ Ran("doSomethingImportant", r5)
     /\ UNCHANGED <<onStart, onFinish, receiveItems, sendItem>>
  /\ UNCHANGED commandOthers
     /\ UNCHANGED commandOthers

SetReceiveItems(adminAction) ==
  /\ receiveItems' = adminAction
  /\ UNCHANGED <<onStart, onFinish, sendItem, cmdOp, cmdSlots, cmdExecuted, cmdConsole,
               cmdError>>
  /\ UNCHANGED commandOthers

SetSendItem(adminAction) ==
  /\ sendItem' = adminAction
  /\ UNCHANGED <<onStart, onFinish, receiveItems, cmdOp, cmdSlots, cmdExecuted, cmdConsole,
               cmdError>>
  /\ UNCHANGED commandOthers

ReceiveABunchOfItems ==
  /\ Ran("receiveABunchOfItems", ExecuteIfCommand(Run0, receiveItems))
  /\ UNCHANGED <<onStart, onFinish, receiveItems, sendItem>>
  /\ UNCHANGED commandOthers

SendAnItem ==
  /\ Ran("sendAnItem", ExecuteIfCommand(Run0, sendItem))
  /\ UNCHANGED <<onStart, onFinish, receiveItems, sendItem>>
  /\ UNCHANGED commandOthers

\* C2: invoking an invoker operation whose command slot was never set executes
\* no command for that slot and raises no error; doSomethingImportant with
\* onStart unset and onFinish set runs only the onFinish command.
C2_UnsetSlotIsTolerated ==
  /\ (/\ cmdOp = "doSomethingImportant"
      /\ cmdSlots.onStart = NoCommand /\ cmdSlots.onFinish # NoCommand)
       => (cmdError = "none" /\ cmdExecuted = <<cmdSlots.onFinish>>)
  /\ (cmdOp = "sendAnItem" /\ cmdSlots.sendItem = NoCommand)
       => (cmdError = "none" /\ cmdExecuted = <<>>)
  /\ (cmdOp = "receiveABunchOfItems" /\ cmdSlots.receiveItems = NoCommand)
       => (cmdError = "none" /\ cmdExecuted = <<>>)

CommandNext ==
  \/ \E command \in Commands : SetOnStart(command)
  \/ \E command \in Commands : SetOnFinish(command)
  \/ DoSomethingImportant
  \/ \E adminAction \in AdministrativeActions : SetReceiveItems(adminAction)
  \/ \E adminAction \in AdministrativeActions : SetSendItem(adminAction)
  \/ ReceiveABunchOfItems
  \/ SendAnItem

(***************************************************************************)
(* Iterator                                                                *)
(***************************************************************************)

\* the arguments tried: the driver's range(0, 20, 5), ranges that are empty from
\* the start, a step that does not divide the distance, the default step 1
Starts == {0, 5, 20, 25}
Ends == {0, 20}
Steps == {-5, 1, 5, 7}

\* how many next() calls and traversals are made on one iterator
MaxCalls == 7
MaxTraversals == 2

\* next() that also yields when start has reached end
next_Inclusive(start, end, step) ==
  IF start <= end
    THEN [start |-> start + step, value |-> start + step, done |-> FALSE]
    ELSE [start |-> start, value |-> end, done |-> TRUE]

\* next() that steps back when it reports completion
next_Rewind(start, end, step) ==
  IF start < end
    THEN [start |-> start + step, value |-> start + step, done |-> FALSE]
    ELSE [start |-> start - step, value |-> end, done |-> TRUE]

\* next(): the result, and the closure variable start after the call
next(start, end, step) ==
  IF start < end
    THEN [start |-> start + step, value |-> start + step, done |-> FALSE]
    ELSE [start |-> start, value |-> end, done |-> TRUE]

RangeInit ==
  /\ rArgs = <<>>
  /\ rStart = 0
  /\ rEnd = 0
  /\ rStep = 0
  /\ rTraversal = 0
  /\ rLog = <<>>

\* range(start, end, step): the returned object closes over its parameters
Range(start, end, step) ==
  /\ rArgs = <<>>
  /\ rArgs' = <<start, end, step>>
  /\ rStart' = start
  /\ rEnd' = end
  /\ rStep' = step
  /\ UNCHANGED <<rTraversal, rLog>>
  /\ UNCHANGED rangeOthers

\* [Symbol.iterator](): returns this, the same object with the same closure
SymbolIterator ==
  /\ rArgs # <<>>
  /\ rTraversal < MaxTraversals
  /\ rTraversal' = rTraversal + 1
  /\ UNCHANGED <<rArgs, rStart, rEnd, rStep, rLog>>
  /\ UNCHANGED rangeOthers

\* a call of next() on the object
IteratorNext ==
  LET r == next(rStart, rEnd, rStep) IN
  /\ rArgs # <<>>
  /\ Len(rLog) < MaxCalls
  /\ rStart' = r.start
  /\ rLog' = Append(rLog, [value |-> r.value, done |-> r.done, traversal |-> rTraversal])
  /\ UNCHANGED <<rArgs, rEnd, rStep, rTraversal>>
  /\ UNCHANGED rangeOthers

\* C5: iterating range(0, 20, 5) yields exactly 5, 10, 15, 20, in that order and
\* each with done = false, and the next call of next() reports done = true.
C5_DriverRangeYields ==
  rArgs = <<0, 20, 5>> =>
    \A i \in 1..Len(rLog) :
      /\ i <= 4 => (rLog[i].value = 5 * i /\ rLog[i].done = FALSE)
      /\ i = 5 => rLog[i].done = TRUE

C5_Witness ==
  /\ rArgs = <<0, 20, 5>>
  /\ Len(rLog) = 5
  /\ rLog[4].value = 20 /\ rLog[5].done

\* C6: once next() has returned done = true, every later next() call on the same
\* iterator returns done = true, also after [Symbol.iterator]() was called again.
C6_ExhaustionIsPermanent ==
  \A i \in 1..Len(rLog) : \A j \in 1..Len(rLog) :
    (i < j /\ rLog[i].done) => rLog[j].done

\* a second traversal of an iterator that yielded values and was exhausted
C6_Witness ==
  \E i \in 1..Len(rLog) : \E j \in 1..Len(rLog) : \E k \in 1..Len(rLog) :
    /\ i < j /\ j < k
    /\ ~rLog[i].done /\ rLog[j].done
    /\ rLog[k].traversal > rLog[j].traversal /\ rLog[k].done

\* C7: for every range(start, end, step) with start >= end, the first next() call
\* returns done = true with value end.
C7_EmptyRangeIsDoneAtOnce ==
  (rArgs # <<>> /\ Len(rLog) >= 1) =>
    (rArgs[1] >= rArgs[2] => (rLog[1].done /\ rLog[1].value = rArgs[2]))

C7_Witness ==
  /\ rArgs # <<>> /\ Len(rLog) >= 1
  /\ rArgs[1] = rArgs[2]
  /\ rLog[1].done /\ rLog[1].value = 20

\* C23: for every range(start, end, step) with start < end and a positive integer
\* step, every value returned by next() with done = false satisfies
\* start < value <= end: the iterator never yields a value beyond the end bound.
C23_YieldsStayWithinEnd ==
  (rArgs # <<>> /\ rArgs[1] < rArgs[2] /\ rArgs[3] > 0) =>
    \A i \in 1..Len(rLog) :
      ~rLog[i].done => (rArgs[1] < rLog[i].value /\ rLog[i].value <= rArgs[2])

RangeNext ==
  \/ \E start \in Starts, end \in Ends, step \in Steps : Range(start, end, step)
  \/ SymbolIterator
  \/ IteratorNext

(***************************************************************************)
(* Singleton                                                               *)
(***************************************************************************)

\* the places of the program that call ApplicationSettings.getInstance()
CallSites == {"settings", "a", "b"}

\* how many getInstance() calls are made
MaxGets == 4

\* getInstance() that constructs an instance on every call
getInstance_AlwaysNew(inst, count) ==
  [instance |-> count + 1, constructed |-> count + 1, returned |-> count + 1]

\* getInstance(): the static field, the number of objects constructed and the
\* returned reference after the call; a new object gets the next identity
getInstance(inst, count) ==
  IF inst = 0
    THEN [instance |-> count + 1, constructed |-> count + 1, returned |-> count + 1]
    ELSE [instance |-> inst, constructed |-> count, returned |-> inst]

SingletonInit ==
  /\ instance = 0
  /\ constructed = 0
  /\ sCalls = <<>>

\* const settings = ApplicationSettings.getInstance(), at any call site
GetInstance(site) ==
  LET r == getInstance(instance, constructed) IN
  /\ Len(sCalls) < MaxGets
  /\ instance' = r.instance
  /\ constructed' = r.constructed
  /\ sCalls' = Append(sCalls, [site |-> site, returned |-> r.returned])
  /\ UNCHANGED singletonOthers

\* C4: after any sequence of getInstance() calls at most one ApplicationSettings
\* instance has been constructed and every call returned that identical instance.
C4_OneInstance ==
  /\ constructed <= 1
  /\ \A i \in 1..Len(sCalls) : sCalls[i].returned = instance /\ instance # 0
  /\ \A i \in 1..Len(sCalls) : \A j \in 1..Len(sCalls) :
       sCalls[i].returned = sCalls[j].returned

\* two call sites have called getInstance()
C4_Witness ==
  \E i \in 1..Len(sCalls) : \E j \in 1..Len(sCalls) :
    /\ i < j /\ sCalls[i].site # sCalls[j].site
    /\ sCalls[i].returned = 1 /\ sCalls[j].returned = 1

SingletonNext ==
  \E site \in CallSites : GetInstance(site)

(***************************************************************************)
(* Flyweight                                                               *)
(***************************************************************************)

\* the two factory classes, which have the same code
FactoryClasses == {"FlyweightFactory", "CitizenFactory"}

\* the shared states tried: two cars of the driver, a state whose string contains
\* the separator of the key, the state it collides with, a plain state, and a
\* state whose key is the name of a member of Object.prototype
SharedStates ==
  {<<"BMW", "M5", "red">>, <<"BMW", "X1", "red">>,
   <<"BMW", "X1">>, <<"BMW_X1">>, <<"X1">>, <<"toString">>}

\* the lists of initial flyweights a factory is constructed with
InitialLists ==
  {<<>>,
   <<<<"BMW", "M5", "red">>, <<"BMW", "X1">>>>,
   <<<<"BMW", "X1">>, <<"BMW_X1">>>>,
   <<<<"X1">>, <<"toString">>, <<"X1">>>>}

\* how many getFlyweight calls are made on one factory
MaxGetFlyweight == 3

\* the property names every object inherits from Object.prototype
ObjectPrototype == <<"constructor", "toString", "valueOf", "hasOwnProperty">>

\* a reference to a flyweight object on the heap, and to an inherited member
Ref(id) == [kind |-> "flyweight", id |-> id]
Inherited(key) ==
  [kind |-> "inherited", id |-> CHOOSE i \in 1..Len(ObjectPrototype) : ObjectPrototype[i] = key]

\* state.join('_')
RECURSIVE getKey(_)
getKey(state) ==
  IF state = <<>> THEN ""
  ELSE IF Len(state) = 1 THEN state[1]
  ELSE state[1] \o "_" \o getKey(Tail(state))

\* key in obj: true of own properties and of inherited ones
In(key, obj) ==
  key \in DOMAIN obj \/ key \in {ObjectPrototype[i] : i \in 1..Len(ObjectPrototype)}

\* obj[key]: an own property shadows an inherited one
Get(key, obj) ==
  IF key \in DOMAIN obj THEN obj[key] ELSE Inherited(key)

\* obj[key] = value
Put(key, value, obj) ==
  [k \in DOMAIN obj \cup {key} |-> IF k = key THEN value ELSE obj[k]]

\* the constructor's loop over the initial states
RECURSIVE constructor(_, _, _)
constructor(initial, cache, heap) ==
  IF initial = <<>> THEN [flyweights |-> cache, heap |-> heap]
  ELSE constructor(Tail(initial),
                   Put(getKey(Head(initial)), Ref(Len(heap) + 1), cache),
                   Append(heap, Head(initial)))

\* getFlyweight that constructs a flyweight on every call
getFlyweight_NoReuse(sharedState, cache, heap) ==
  LET key == getKey(sharedState) IN
  [flyweights |-> Put(key, Ref(Len(heap) + 1), cache),
   heap |-> Append(heap, sharedState),
   returned |-> Ref(Len(heap) + 1)]

\* getFlyweight(sharedState) / getCitizen(citizenSharedState)
getFlyweight(sharedState, cache, heap) ==
  LET key == getKey(sharedState) IN
  IF ~In(key, cache)
    THEN [flyweights |-> Put(key, Ref(Len(heap) + 1), cache),
          heap |-> Append(heap, sharedState),
          returned |-> Ref(Len(heap) + 1)]
    ELSE [flyweights |-> cache, heap |-> heap, returned |-> Get(key, cache)]

\* Object.keys(this.flyweights).length
Count(cache) == Cardinality(DOMAIN cache)

FlyweightInit ==
  /\ fClass = "none"
  /\ fInitial = <<>>
  /\ flyweights = <<>>
  /\ fHeap = <<>>
  /\ fCalls = <<>>
  /\ fCount = -1

\* new FlyweightFactory(initialFlyweights) / new CitizenFactory(initialCitizens)
NewFactory(class, initial) ==
  LET r == constructor(initial, <<>>, <<>>) IN
  /\ fClass = "none"
  /\ fClass' = class
  /\ fInitial' = initial
  /\ flyweights' = r.flyweights
  /\ fHeap' = r.heap
  /\ UNCHANGED <<fCalls, fCount>>
  /\ UNCHANGED flyweightOthers

\* factory.getFlyweight(sharedState) / factory.getCitizen(citizenSharedState)
GetFlyweight(sharedState) ==
  LET r == getFlyweight(sharedState, flyweights, fHeap) IN
  /\ fClass # "none"
  /\ Len(fCalls) < MaxGetFlyweight
  /\ flyweights' = r.flyweights
  /\ fHeap' = r.heap
  /\ fCalls' = Append(fCalls, [sharedState |-> sharedState,
                               returned |-> r.returned,
                               cached |-> getKey(sharedState) \in DOMAIN flyweights,
                               before |-> Count(flyweights),
                               after |-> Count(r.flyweights)])
  /\ UNCHANGED <<fClass, fInitial, fCount>>
  /\ UNCHANGED flyweightOthers

\* factory.listFlyweights() / factory.listCitizens()
ListFlyweights ==
  /\ fClass # "none"
  /\ fCount' = Count(flyweights)
  /\ UNCHANGED <<fClass, fInitial, flyweights, fHeap, fCalls>>
  /\ UNCHANGED flyweightOthers

InitialStates == {fInitial[i] : i \in 1..Len(fInitial)}

C10_CacheGrowsByOneForNewKey ==
  \A i \in 1..Len(fCalls) :
    /\ ~fCalls[i].cached => fCalls[i].after = fCalls[i].before + 1
    /\ fCalls[i].cached => fCalls[i].after = fCalls[i].before

\* C22: for every call history, the flyweight returned by getFlyweight(sharedState)
\* holds a shared state equal, element by element, to the requested sharedState,
\* and two shared states that differ by value never receive the same flyweight.
C22_KeyDistinguishesStates ==
  /\ \A i \in 1..Len(fCalls) :
       /\ fCalls[i].returned.kind = "flyweight"
       /\ fHeap[fCalls[i].returned.id] = fCalls[i].sharedState
  /\ \A i \in 1..Len(fCalls) : \A j \in 1..Len(fCalls) :
       fCalls[i].sharedState # fCalls[j].sharedState
         => fCalls[i].returned # fCalls[j].returned

FlyweightNext ==
  \/ \E class \in FactoryClasses, initial \in InitialLists : NewFactory(class, initial)
  \/ \E sharedState \in SharedStates : GetFlyweight(sharedState)
  \/ ListFlyweights

(***************************************************************************)
(* Observer                                                                *)
(***************************************************************************)

\* the three callbacks of the driver, and the values it emits
Callbacks == {"tv1", "tv2", "tv3"}
News == {"Breaking news: ", "Something happened!"}

\* how many subscriptions and emissions are made
MaxSubscribers == 3
MaxEmits == 2

\* the callbacks: v => console.log(v + ' via TVCompanyN')
tv1(v) == <<v \o " via TVCompany1">>
\* a second callback that names the wrong company
tv2_Company3(v) == <<v \o " via TVCompany3">>
tv2(v) == <<v \o " via TVCompany2">>
tv3(v) == <<v \o " via TVCompany3">>

\* a call of a subscribed callback: the lines it prints
Notify(callback, v) ==
  CASE callback = "tv1" -> tv1(v)
    [] callback = "tv2" -> tv2(v)
    [] callback = "tv3" -> tv3(v)

\* Subject.subscribe(callback): the callback is added after the ones subscribed
Subject_subscribe(subscribed, callback) == Append(subscribed, callback)

\* Subject.next(v): every subscribed callback is called with v, in subscription
\* order, before the call returns; the lines printed meanwhile
RECURSIVE Subject_next(_, _)
Subject_next(subscribed, v) ==
  IF subscribed = <<>> THEN <<>>
  ELSE Notify(Head(subscribed), v) \o Subject_next(Tail(subscribed), v)

ObserverInit ==
  /\ observers = <<>>
  /\ oEmits = <<>>
  /\ oConsole = <<>>

\* news.subscribe(callback)
Subscribe(callback) ==
  /\ Len(observers) < MaxSubscribers
  /\ observers' = Subject_subscribe(observers, callback)
  /\ UNCHANGED <<oEmits, oConsole>>
  /\ UNCHANGED observerOthers

\* news.next(v)
Emit(v) ==
  LET lines == Subject_next(observers, v) IN
  /\ Len(oEmits) < MaxEmits
  /\ oEmits' = Append(oEmits, [value |-> v, observers |-> observers, lines |-> lines])
  /\ oConsole' = oConsole \o lines
  /\ UNCHANGED observers
  /\ UNCHANGED observerOthers

\* the lines of the first n emissions, one emission after the other
RECURSIVE EmittedLines(_)
EmittedLines(n) ==
  IF n = 0 THEN <<>> ELSE EmittedLines(n - 1) \o oEmits[n].lines

\* C8: after subscribing tv1, tv2, tv3 in that order, each emission news.next(v)
\* invokes all three callbacks with v, each exactly once, in subscription order,
\* and all callbacks of an emission run before any callback of the next one.
C8_EmissionReachesAllInOrder ==
  /\ \A k \in 1..Len(oEmits) :
       oEmits[k].observers = <<"tv1", "tv2", "tv3">> =>
         oEmits[k].lines = <<oEmits[k].value \o " via TVCompany1",
                             oEmits[k].value \o " via TVCompany2",
                             oEmits[k].value \o " via TVCompany3">>
  /\ oConsole = EmittedLines(Len(oEmits))

\* the run of the driver: three subscriptions, then the two emissions
C8_Witness ==
  /\ observers = <<"tv1", "tv2", "tv3">>
  /\ oConsole = <<"Breaking news:  via TVCompany1",
                  "Breaking news:  via TVCompany2",
                  "Breaking news:  via TVCompany3",
                  "Something happened! via TVCompany1",
                  "Something happened! via TVCompany2",
                  "Something happened! via TVCompany3">>

ObserverNext ==
  \/ \E callback \in Callbacks : Subscribe(callback)
  \/ \E v \in News : Emit(v)

(***************************************************************************)
(* Template method                                                         *)
(***************************************************************************)

ConcreteClasses == {"ConcreteClass1", "ConcreteClass2"}

\* how many templateMethod() calls are made
MaxRuns == 3

\* a template method that runs the first hook before the second base step
templateMethod_HookEarly ==
  <<"baseOperation1", "requiredOperations1", "hook1", "baseOperation2",
    "requiredOperation2", "baseOperation3", "hook2">>

\* AbstractClass.templateMethod(): the methods it calls on this, in order
templateMethod ==
  <<"baseOperation1", "requiredOperations1", "baseOperation2", "hook1",
    "requiredOperation2", "baseOperation3", "hook2">>

\* the methods AbstractClass implements, with the lines each prints
AbstractClass ==
  [baseOperation1 |-> <<"AbstractClass says: I am doing the bulk of the work">>,
   baseOperation2 |-> <<"AbstractClass says: But I let subclasses override some operations">>,
   baseOperation3 |-> <<"AbstractClass says: But I am doing the bulk of the work anyway">>,
   hook1 |-> <<>>,
   hook2 |-> <<>>]

\* the methods each concrete class implements
ConcreteClass1 ==
  [requiredOperations1 |-> <<"ConcreteClass1 says: Implemented Operation1">>,
   requiredOperation2 |-> <<"ConcreteClass1 says: Implemented Operation2">>]

ConcreteClass2 ==
  [requiredOperations1 |-> <<"ConcreteClass2 says: Implemented Operation1">>,
   requiredOperation2 |-> <<"ConcreteClass2 says: Implemented Operation2">>,
   hook1 |-> <<"ConcreteClass2 says: Overridden Hook1">>]

Methods(class) == IF class = "ConcreteClass1" THEN ConcreteClass1 ELSE ConcreteClass2

\* this.method(): the implementation of the object's class, else the inherited one
Invoke(class, method) ==
  IF method \in DOMAIN Methods(class)
    THEN [step |-> method, of |-> class, lines |-> Methods(class)[method]]
    ELSE [step |-> method, of |-> "AbstractClass", lines |-> AbstractClass[method]]

RunTemplate(class) == [i \in 1..Len(templateMethod) |-> Invoke(class, templateMethod[i])]

RECURSIVE LinesOf(_)
LinesOf(steps) ==
  IF steps = <<>> THEN <<>> ELSE Head(steps).lines \o LinesOf(Tail(steps))

\* the operands Math.random() gives: the least, a middle and the greatest value
FirstOperands == {10, 55, 100}
SecondOperands == {100, 550, 1000}
MathematicalOperations == {"Sum", "Rest"}

\* the result shown in a line of text
Shown(n) == IF n < 0 THEN "-" \o ToString(-n) ELSE ToString(n)

performOperation(class, number1, number2) ==
  IF class = "Sum" THEN number1 + number2 ELSE number1 - number2

\* hookOperation of Sum and Rest: a line is printed, the result is returned as is
hookOperation(class, result) ==
  [result |-> result,
   lines |-> <<class \o " record has been added to Database with result: "
                \o Shown(result)>>]

TemplateInit ==
  /\ tRuns = <<>>
  /\ tConsole = <<>>
  /\ mResult = 0
  /\ mConsole = <<>>

\* clientCode(new ConcreteClass1()) / clientCode(new ConcreteClass2())
TemplateMethod(class) ==
  LET steps == RunTemplate(class) IN
  /\ Len(tRuns) < MaxRuns
  /\ tRuns' = Append(tRuns, [class |-> class, steps |-> steps])
  /\ tConsole' = tConsole \o LinesOf(steps)
  /\ UNCHANGED <<mResult, mConsole>>
  /\ UNCHANGED templateOthers

\* mathematicalOperationClientCode(new Sum()) / (new Rest())
PerformMathematicalOperation(class, number1, number2) ==
  LET h == hookOperation(class, performOperation(class, number1, number2)) IN
  /\ mResult' = h.result
  /\ mConsole' = h.lines \o <<"The result is: " \o Shown(h.result)>>
  /\ UNCHANGED <<tRuns, tConsole>>
  /\ UNCHANGED templateOthers

\* C9: templateMethod() on every concrete subclass runs baseOperation1,
\* requiredOperations1, baseOperation2, hook1, requiredOperation2, baseOperation3,
\* hook2 in this order, each once, and any two subclasses run the base steps of
\* AbstractClass, with the same output, at the same positions.
C9_FixedStepOrder ==
  /\ \A k \in 1..Len(tRuns) :
       /\ Len(tRuns[k].steps) = 7
       /\ tRuns[k].steps[1].step = "baseOperation1"
       /\ tRuns[k].steps[2].step = "requiredOperations1"
       /\ tRuns[k].steps[3].step = "baseOperation2"
       /\ tRuns[k].steps[4].step = "hook1"
       /\ tRuns[k].steps[5].step = "requiredOperation2"
       /\ tRuns[k].steps[6].step = "baseOperation3"
       /\ tRuns[k].steps[7].step = "hook2"
  /\ \A k \in 1..Len(tRuns) : \A l \in 1..Len(tRuns) : \A i \in {1, 3, 6} :
       /\ tRuns[k].steps[i].of = "AbstractClass"
       /\ tRuns[k].steps[i] = tRuns[l].steps[i]

\* both subclasses have run, as in the driver; only the second prints at hook1
C9_Witness ==
  /\ Len(tRuns) >= 2
  /\ tRuns[1].class = "ConcreteClass1" /\ tRuns[2].class = "ConcreteClass2"
  /\ tRuns[1].steps[4].lines = <<>>
  /\ tRuns[2].steps[4].lines = <<"ConcreteClass2 says: Overridden Hook1">>
  /\ Len(tConsole) = 5 + 6

TemplateNext ==
  \/ \E class \in ConcreteClasses : TemplateMethod(class)
  \/ \E class \in MathematicalOperations, number1 \in FirstOperands,
        number2 \in SecondOperands : PerformMathematicalOperation(class, number1, number2)

(***************************************************************************)
(* Chain of responsibility: the buffets                                    *)
(***************************************************************************)

\* the two buffet objects the driver constructs, and the foods its client code offers
Buffets == {"Japanese", "Mexican"}
Foods == {"Sushi", "Yakimeshi", "Tacos", "Enchiladas", "Hamburger"}

\* how many entries the menus hold together
MaxMenu == 3

\* this.menu.includes(foodType)
Includes(list, x) == \E i \in 1..Len(list) : list[i] = x

\* what an addToMenu call gives back: a returned value or a thrown error, and the
\* menus as the call leaves them
ReturnMenu(v, mn) == [value |-> v, checked |-> <<>>, error |-> "none", menu |-> mn]
ThrowMenu(e, mn) == [value |-> Null, checked |-> <<>>, error |-> e, menu |-> mn]

RECURSIVE addToMenu(_, _, _, _, _)

\* a base buffet that calls its successor without testing that it has one
AbstractBuffet_addToMenu_NoGuard(nb, mn, this, foodType, depth) ==
  IF nb[this] # Undefined
    THEN addToMenu(nb, mn, nb[this], foodType, depth + 1)
    ELSE ThrowMenu("TypeError", mn)

AbstractBuffet_addToMenu(nb, mn, this, foodType, depth) ==
  IF nb[this] # Undefined
    THEN addToMenu(nb, mn, nb[this], foodType, depth + 1)
    ELSE ReturnMenu(Null, mn)

\* && binds tighter than ||: the menu is looked at for the second food only
JapaneseFoodBuffet_addToMenu(nb, mn, this, foodType, depth) ==
  IF foodType = "Sushi" \/ (foodType = "Yakimeshi" /\ ~Includes(mn[this], foodType))
    THEN ReturnMenu("JapaneseFoodBuffet: I'll add the " \o foodType \o " to my menu.",
                    [mn EXCEPT ![this] = Append(@, foodType)])
    ELSE AbstractBuffet_addToMenu(nb, mn, this, foodType, depth)

\* the redeclaration of menu on line 155 has no initializer: it emits no code, and
\* the menu is the one the constructor of AbstractBuffet assigned
MexicanFoodBuffet_addToMenu(nb, mn, this, foodType, depth) ==
  IF foodType = "Tacos" \/ (foodType = "Enchiladas" /\ ~Includes(mn[this], foodType))
    THEN ReturnMenu("MexicanFoodBuffet: I'll add the " \o foodType \o " to my menu.",
                    [mn EXCEPT ![this] = Append(@, foodType)])
    ELSE AbstractBuffet_addToMenu(nb, mn, this, foodType, depth)

\* buffet.addToMenu(foodType): dispatched on the class of the buffet; a call nested
\* deeper than the call stack allows throws a RangeError
addToMenu(nb, mn, this, foodType, depth) ==
  IF depth > MaxStack
    THEN ThrowMenu("RangeError", mn)
    ELSE LET r == IF this = "Japanese"
                    THEN JapaneseFoodBuffet_addToMenu(nb, mn, this, foodType, depth)
                    ELSE MexicanFoodBuffet_addToMenu(nb, mn, this, foodType, depth)
         IN [r EXCEPT !.checked = <<this>> \o @]

\* new JapaneseFoodBuffet([]), new MexicanFoodBuffet([])
BuffetInit ==
  /\ nextBuffet = [b \in Buffets |-> Undefined]
  /\ passRet = Undefined
  /\ menu = [b \in Buffets |-> <<>>]
  /\ bStatus = "idle"
  /\ bEntry = Undefined
  /\ bFood = Undefined
  /\ bResult = Undefined
  /\ bChecked = <<>>
  /\ bLinks = [b \in Buffets |-> Undefined]
  /\ bMenus = [b \in Buffets |-> <<>>]

\* this.passToNextBuffet(nextBuffet)
PassToNextBuffet(this, buffet) ==
  /\ nextBuffet' = [nextBuffet EXCEPT ![this] = buffet]
  /\ passRet' = buffet
  /\ UNCHANGED <<menu, bStatus, bEntry, bFood, bResult, bChecked, bLinks, bMenus>>
  /\ UNCHANGED buffetOthers

\* const result = buffet.addToMenu(food), as in buffetClientCode
AddToMenu(this, foodType) ==
  LET r == addToMenu(nextBuffet, menu, this, foodType, 1) IN
  /\ Len(menu["Japanese"]) + Len(menu["Mexican"]) < MaxMenu
  /\ menu' = r.menu
  /\ bStatus' = IF r.error = "none" THEN "returned" ELSE r.error
  /\ bEntry' = this
  /\ bFood' = foodType
  /\ bResult' = r.value
  /\ bChecked' = r.checked
  /\ bLinks' = nextBuffet
  /\ bMenus' = menu
  /\ UNCHANGED <<nextBuffet, passRet>>
  /\ UNCHANGED buffetOthers

\* japaneseFoodBuffet.passToNextBuffet(mexicanFoodBuffet): Japanese -> Mexican
DriverBuffetLinks == [b \in Buffets |-> IF b = "Japanese" THEN "Mexican" ELSE Undefined]

\* the foods each buffet serves, and the buffets at or after an entry buffet
Serves == [b \in Buffets |-> IF b = "Japanese" THEN {"Sushi", "Yakimeshi"}
                                                 ELSE {"Tacos", "Enchiladas"}]
Onward(entry) == IF entry = "Japanese" THEN {"Japanese", "Mexican"} ELSE {"Mexican"}

\* C12: in the buffet chain Japanese -> Mexican, addToMenu(food) for a food that no
\* buffet from the entry buffet onward accepts returns null, raises no exception
\* and leaves every buffet's menu unchanged.
C12_UnacceptedFoodIsLeftUntouched ==
  (/\ bStatus # "idle"
   /\ bLinks = DriverBuffetLinks
   /\ \A b \in Onward(bEntry) : bFood \notin Serves[b])
    => (bStatus = "returned" /\ bResult = Null /\ menu = bMenus)

\* a Hamburger went through both buffets, and Sushi was offered to the Mexican
\* buffet, with a menu that was not empty
C12_Witness ==
  /\ bLinks = DriverBuffetLinks /\ bStatus = "returned" /\ bResult = Null
  /\ menu["Japanese"] # <<>> /\ menu = bMenus
  /\ \/ bFood = "Hamburger" /\ bChecked = <<"Japanese", "Mexican">>
     \/ bFood = "Sushi" /\ bChecked = <<"Mexican">>

\* C21: after any sequence of addToMenu calls on the buffet chain, from any entry
\* buffet and with any foods, no buffet's menu contains the same food twice.
C21_NoFoodTwiceOnAMenu ==
  \A b \in Buffets : \A i \in 1..Len(menu[b]) : \A j \in 1..Len(menu[b]) :
    menu[b][i] = menu[b][j] => i = j

BuffetNext ==
  \/ \E this \in Buffets, buffet \in Buffets : PassToNextBuffet(this, buffet)
  \/ \E this \in Buffets, foodType \in Foods : AddToMenu(this, foodType)

(***************************************************************************)
(* Both chains of src/Behavioral/chainOfResponsibility.ts in one run       *)
(***************************************************************************)

\* the wiring calls and the requests tried when both chains run together: the
\* links of the drivers, a request and a food that are handled, a request and a
\* food that are not
TraversalLinks == {<<"Monkey", "Squirrel">>, <<"Squirrel", "Dog">>}
TraversalRequests == {"Nut", "MeatBall", "Cup of coffee"}
TraversalFoods == {"Sushi", "Enchiladas", "Hamburger"}

TraversalNext ==
  \/ \E link \in TraversalLinks : SetNext(link[1], link[2])
  \/ \E this \in Handlers, request \in TraversalRequests : Handle(this, request)
  \/ PassToNextBuffet("Japanese", "Mexican")
  \/ \E this \in Buffets, foodType \in TraversalFoods : AddToMenu(this, foodType)

\* what is known of the last traversal of each chain
handleCall == <<hStatus, hEntry, hRequest, hResult, hChecked, hLinks>>
addToMenuCall == <<bStatus, bEntry, bFood, bResult, bChecked, bLinks, bMenus, menu>>

\* C13: a traversal never changes the chain topology: handle(request), and
\* addToMenu(food) in the buffet chain, leave every successor link unchanged,
\* whether the request is handled or not; a link changes only the way setNext /
\* passToNextBuffet change it.
C13_TraversalKeepsLinks ==
  [][/\ handleCall' # handleCall => nextHandler' = nextHandler
     /\ addToMenuCall' # addToMenuCall => nextBuffet' = nextBuffet
     /\ nextHandler' # nextHandler =>
          \E this \in Handlers, handler \in Handlers :
            /\ nextHandler' = [nextHandler EXCEPT ![this] = handler]
            /\ setNextRet' = handler
     /\ nextBuffet' # nextBuffet =>
          \E this \in Buffets, buffet \in Buffets :
            /\ nextBuffet' = [nextBuffet EXCEPT ![this] = buffet]
            /\ passRet' = buffet]_vars

\* both chains are wired as in the drivers and still are after a request went
\* through all handlers unhandled, and a food was added by the first buffet
C13_Witness ==
  /\ hStatus = "returned" /\ hResult = Null /\ hChecked = <<"Monkey", "Squirrel", "Dog">>
  /\ hLinks = DriverLinks /\ nextHandler = DriverLinks
  /\ bStatus = "returned" /\ bFood = "Sushi" /\ bChecked = <<"Japanese">>
  /\ bLinks = DriverBuffetLinks /\ nextBuffet = DriverBuffetLinks

(***************************************************************************)
(* Facade                                                                  *)
(***************************************************************************)

\* how many operations are called on the house
MaxHouseOps == 6

\* a call of a method of a subsystem, with its arguments
Call(system, method, args) == [system |-> system, method |-> method, args |-> args]

\* turnOnSystems that turns the electrical system on before it sets the voltage
turnOnSystems_OnFirst ==
  <<Call("electrical", "turnOn", <<>>),
    Call("electrical", "setVoltage", <<120>>),
    Call("plumbing", "setPressure", <<500>>),
    Call("plumbing", "turnOn", <<>>)>>

\* House.turnOnSystems(): the calls it makes on the subsystems, in order
turnOnSystems ==
  <<Call("electrical", "setVoltage", <<120>>),
    Call("electrical", "turnOn", <<>>),
    Call("plumbing", "setPressure", <<500>>),
    Call("plumbing", "turnOn", <<>>)>>

\* House.turnOffSystems(): the calls it makes on the subsystems, in order
turnOffSystems ==
  <<Call("electrical", "turnOff", <<>>),
    Call("plumbing", "turnOff", <<>>)>>

\* const house = new House()
FacadeInit ==
  /\ houseOps = <<>>
  /\ subsystemCalls = <<>>

\* house.turnOnSystems()
TurnOnSystems ==
  /\ Len(houseOps) < MaxHouseOps
  /\ houseOps' = Append(houseOps, [op |-> "turnOnSystems", calls |-> turnOnSystems])
  /\ subsystemCalls' = subsystemCalls \o turnOnSystems
  /\ UNCHANGED facadeOthers

\* house.turnOffSystems()
TurnOffSystems ==
  /\ Len(houseOps) < MaxHouseOps
  /\ houseOps' = Append(houseOps, [op |-> "turnOffSystems", calls |-> turnOffSystems])
  /\ subsystemCalls' = subsystemCalls \o turnOffSystems
  /\ UNCHANGED facadeOthers

\* C14: turnOnSystems calls electrical.setVoltage(120), electrical.turnOn(),
\* plumbing.setPressure(500), plumbing.turnOn(), in this order, so no subsystem is
\* turned on by the facade before its parameter has been set; turnOffSystems
\* calls electrical.turnOff(), then plumbing.turnOff().
C14_ParameterBeforeTurnOn ==
  /\ \A k \in 1..Len(houseOps) :
       /\ houseOps[k].op = "turnOnSystems" =>
            houseOps[k].calls =
              <<[system |-> "electrical", method |-> "setVoltage", args |-> <<120>>],
                [system |-> "electrical", method |-> "turnOn", args |-> <<>>],
                [system |-> "plumbing", method |-> "setPressure", args |-> <<500>>],
                [system |-> "plumbing", method |-> "turnOn", args |-> <<>>]>>
       /\ houseOps[k].op = "turnOffSystems" =>
            houseOps[k].calls =
              <<[system |-> "electrical", method |-> "turnOff", args |-> <<>>],
                [system |-> "plumbing", method |-> "turnOff", args |-> <<>>]>>
  /\ \A i \in 1..Len(subsystemCalls) :
       subsystemCalls[i].method = "turnOn" =>
         \E j \in 1..(i - 1) :
           /\ subsystemCalls[j].system = subsystemCalls[i].system
           /\ subsystemCalls[j].method \in {"setVoltage", "setPressure"}

\* the run of the driver: the systems were turned on, then off
C14_Witness ==
  /\ Len(houseOps) = 2
  /\ houseOps[1].op = "turnOnSystems" /\ houseOps[2].op = "turnOffSystems"
  /\ Len(subsystemCalls) = 6
  /\ subsystemCalls[2].method = "turnOn" /\ subsystemCalls[6].system = "plumbing"

FacadeNext ==
  \/ TurnOnSystems
  \/ TurnOffSystems

(***************************************************************************)
(* Proxy                                                                   *)
(***************************************************************************)

\* the property names and the values tried; originalObject has the property name
Keys == {"name", "age"}
Values == {"Alan", "Someone Else"}

\* Reflect.set(target, key, value) on a plain object: the property is written and
\* true is returned
Reflect_set(target, key, value) ==
  [target |-> [target EXCEPT ![key] = value], returned |-> "true"]

\* the get trap: the line printed and the value returned
reactiveObject_get(target, key) ==
  [lines |-> <<"Tracking:  " \o key>>, target |-> target, returned |-> target[key]]

\* a set trap that logs and reports success without writing to the target
reactiveObject_set_LogOnly(target, key, value) ==
  [lines |-> <<"Updating...">>, target |-> target, returned |-> "true"]

\* the set trap: the line printed, the target after the call and the value returned
reactiveObject_set(target, key, value) ==
  [lines |-> <<"Updating...">>,
   target |-> Reflect_set(target, key, value).target,
   returned |-> Reflect_set(target, key, value).returned]

\* const originalObject = { name: 'Alan' }; a property that is absent reads undefined
ProxyInit ==
  /\ originalObject = [k \in Keys |-> IF k = "name" THEN "Alan" ELSE Undefined]
  /\ pAccess = [op |-> "none", key |-> Undefined, value |-> Undefined,
                returned |-> Undefined, lines |-> <<>>,
                before |-> [k \in Keys |-> Undefined],
                after |-> [k \in Keys |-> Undefined]]

\* reactiveObject[key]
ProxyGet(key) ==
  LET r == reactiveObject_get(originalObject, key) IN
  /\ originalObject' = r.target
  /\ pAccess' = [op |-> "get", key |-> key, value |-> Undefined, returned |-> r.returned,
                 lines |-> r.lines, before |-> originalObject, after |-> r.target]
  /\ UNCHANGED proxyOthers

\* reactiveObject[key] = value
ProxySet(key, value) ==
  LET r == reactiveObject_set(originalObject, key, value) IN
  /\ originalObject' = r.target
  /\ pAccess' = [op |-> "set", key |-> key, value |-> value, returned |-> r.returned,
                 lines |-> r.lines, before |-> originalObject, after |-> r.target]
  /\ UNCHANGED proxyOthers

\* originalObject[key] = value, not through the proxy
TargetSet(key, value) ==
  /\ originalObject' = [originalObject EXCEPT ![key] = value]
  /\ UNCHANGED pAccess
  /\ UNCHANGED proxyOthers

\* C15: every get of a key through the proxy returns exactly the value the target
\* holds for that key, every set through the proxy stores the value unchanged on
\* the target and returns what the target's own set returns, and each access
\* logs once.
C15_ProxyForwardsUnchanged ==
  /\ pAccess.op = "get" =>
       /\ pAccess.returned = pAccess.before[pAccess.key]
       /\ pAccess.after = pAccess.before
       /\ Len(pAccess.lines) = 1
  /\ pAccess.op = "set" =>
       /\ pAccess.after[pAccess.key] = pAccess.value
       /\ \A k \in Keys \ {pAccess.key} : pAccess.after[k] = pAccess.before[k]
       /\ pAccess.returned = "true"
       /\ Len(pAccess.lines) = 1

\* the second access of the driver: the name was replaced through the proxy
C15_Witness ==
  /\ pAccess.op = "set" /\ pAccess.key = "name" /\ pAccess.value = "Someone Else"
  /\ pAccess.before["name"] = "Alan"
  /\ originalObject["name"] = "Someone Else"

ProxyNext ==
  \/ \E key \in Keys : ProxyGet(key)
  \/ \E key \in Keys, value \in Values : ProxySet(key, value)
  \/ \E key \in Keys, value \in Values : TargetSet(key, value)

(***************************************************************************)
(* State                                                                   *)
(***************************************************************************)

\* the Human objects that may be constructed, and a bound on the think calls recorded
Humans == {"human1", "human2"}
MaxThinks == 2

\* the classes that implement State
States == {"HappyState", "SadState"}

HappyState_think == "Im Happy!"

SadState_think == "Im Sad!"

\* state.think(), dispatched on the class of the state object
State_think(state) == IF state = "HappyState" THEN HappyState_think ELSE SadState_think

\* a think that cheers the human up after answering
Human_think_Cheer(st, this) ==
  [state |-> [st EXCEPT ![this] = "HappyState"], returned |-> State_think(st[this])]

\* Human.think(): the state fields after the call and the value returned
Human_think(st, this) ==
  [state |-> st, returned |-> State_think(st[this])]

\* no Human has been constructed
HumanInit ==
  /\ humanState = [h \in Humans |-> Undefined]
  /\ replaced = {}
  /\ thoughts = <<>>

\* new Human(): the constructor sets state to a new HappyState
NewHuman(this) ==
  /\ humanState[this] = Undefined
  /\ humanState' = [humanState EXCEPT ![this] = "HappyState"]
  /\ UNCHANGED <<replaced, thoughts>>
  /\ UNCHANGED humanOthers

\* human.state = new HappyState() or new SadState(): state is a public field
SetState(this, state) ==
  /\ humanState[this] # Undefined
  /\ humanState' = [humanState EXCEPT ![this] = state]
  /\ replaced' = replaced \cup {this}
  /\ UNCHANGED thoughts
  /\ UNCHANGED humanOthers

\* human.think()
Think(this) ==
  LET r == Human_think(humanState, this) IN
  /\ humanState[this] # Undefined
  /\ Len(thoughts) < MaxThinks
  /\ humanState' = r.state
  /\ thoughts' = Append(thoughts, [human |-> this, fresh |-> this \notin replaced,
                                   before |-> humanState, after |-> r.state,
                                   returned |-> r.returned])
  /\ UNCHANGED replaced
  /\ UNCHANGED humanOthers

\* C16: a Human holds exactly one current state and think() returns that state's
\* think() result: 'Im Happy!' for a new Human, 'Im Sad!' once its state is a
\* SadState; think() never changes the state of any Human.
C16_ThinkReportsCurrentState ==
  /\ \A h \in Humans : humanState[h] \in States \cup {Undefined}
  /\ \A i \in 1..Len(thoughts) :
       LET t == thoughts[i] IN
       /\ t.before[t.human] = "HappyState" => t.returned = "Im Happy!"
       /\ t.before[t.human] = "SadState" => t.returned = "Im Sad!"
       /\ t.fresh => t.returned = "Im Happy!"
       /\ t.after = t.before

\* one Human thought while new and again after its state became a SadState
C16_Witness ==
  /\ Len(thoughts) = 2
  /\ thoughts[1].human = thoughts[2].human
  /\ thoughts[1].fresh /\ thoughts[1].returned = "Im Happy!"
  /\ thoughts[2].before[thoughts[2].human] = "SadState"
  /\ thoughts[2].returned = "Im Sad!"

HumanNext ==
  \/ \E this \in Humans : NewHuman(this)
  \/ \E this \in Humans, state \in States : SetState(this, state)
  \/ \E this \in Humans : Think(this)

(***************************************************************************)
(* Factory                                                                 *)
(***************************************************************************)

\* the strings passed as os, and a bound on the buttons created
OperatingSystems == {"ios", "android", "windows", "IOS", ""}
MaxButtons == 3

\* a factory that knows the two names and makes nothing for any other
ButtonFactory_createButton_Strict(os) ==
  IF os = "ios" THEN "IOSButton"
  ELSE IF os = "android" THEN "AndroidButton" ELSE Undefined

\* ButtonFactory.createButton(os): the class of the button returned
ButtonFactory_createButton(os) ==
  IF os = "ios" THEN "IOSButton" ELSE "AndroidButton"

\* const factory = new ButtonFactory()
FactoryInit == buttons = <<>>

\* factory.createButton(os)
CreateButton(os) ==
  /\ Len(buttons) < MaxButtons
  /\ buttons' = Append(buttons, [os |-> os, button |-> ButtonFactory_createButton(os)])
  /\ UNCHANGED factoryOthers

\* C17: createButton(os) returns an IOSButton when os is 'ios' and an
\* AndroidButton for every other value; it never returns nothing.
C17_IosOrElseAndroid ==
  \A i \in 1..Len(buttons) :
    /\ buttons[i].os = "ios" => buttons[i].button = "IOSButton"
    /\ buttons[i].os # "ios" => buttons[i].button = "AndroidButton"
    /\ buttons[i].button # Undefined

\* the two buttons of the driver, then one for a name the factory does not know
C17_Witness ==
  /\ Len(buttons) = 3
  /\ buttons[1] = [os |-> "ios", button |-> "IOSButton"]
  /\ buttons[2] = [os |-> "android", button |-> "AndroidButton"]
  /\ buttons[3] = [os |-> "windows", button |-> "AndroidButton"]

FactoryNext == \E os \in OperatingSystems : CreateButton(os)

(***************************************************************************)
(* Abstract factory                                                        *)
(***************************************************************************)

\* the numeric enums, the discriminator values tried (2 is in neither enum) and a
\* bound on the enemies created
AlienEnemyEnum == [Ship |-> 0, Boss |-> 1]
ZombieEnemyEnum == [Pawn |-> 0, Boss |-> 1]
Discriminators == {0, 1, 2}
MaxEnemies == 3

\* an alien factory whose fallback product comes from the other family
AlienEnemyFactory_createAlienEnemy_Mixed(type) ==
  IF type = AlienEnemyEnum.Ship THEN "AlienShip" ELSE "ZombieBoss"

\* AlienEnemyFactory.createAlienEnemy(type): the class of the enemy returned
AlienEnemyFactory_createAlienEnemy(type) ==
  IF type = AlienEnemyEnum.Ship THEN "AlienShip" ELSE "AlienBoss"

\* ZombieEnemyFactory.createZombieEnemy(type): the class of the enemy returned
ZombieEnemyFactory_createZombieEnemy(type) ==
  IF type = ZombieEnemyEnum.Pawn THEN "PawnZombie" ELSE "ZombieBoss"

\* ConcreteEnemyFactory.createAlienEnemyFactory(): the class of the factory returned
ConcreteEnemyFactory_createAlienEnemyFactory == "AlienEnemyFactory"

\* ConcreteEnemyFactory.createZombieEnemyFactory(): the class of the factory returned
ConcreteEnemyFactory_createZombieEnemyFactory == "ZombieEnemyFactory"

\* const enemyFactory = new ConcreteEnemyFactory()
AbstractFactoryInit ==
  /\ alienEnemyFactory = Undefined
  /\ zombieEnemyFactory = Undefined
  /\ enemies = <<>>

\* const alienEnemyFactory = enemyFactory.createAlienEnemyFactory()
CreateAlienEnemyFactory ==
  /\ alienEnemyFactory' = ConcreteEnemyFactory_createAlienEnemyFactory
  /\ UNCHANGED <<zombieEnemyFactory, enemies>>
  /\ UNCHANGED abstractFactoryOthers

\* const zombieEnemyFactory = enemyFactory.createZombieEnemyFactory()
CreateZombieEnemyFactory ==
  /\ zombieEnemyFactory' = ConcreteEnemyFactory_createZombieEnemyFactory
  /\ UNCHANGED <<alienEnemyFactory, enemies>>
  /\ UNCHANGED abstractFactoryOthers

\* alienEnemyFactory.createAlienEnemy(type)
CreateAlienEnemy(type) ==
  /\ alienEnemyFactory # Undefined
  /\ Len(enemies) < MaxEnemies
  /\ enemies' = Append(enemies, [factory |-> alienEnemyFactory, type |-> type,
                                 enemy |-> AlienEnemyFactory_createAlienEnemy(type)])
  /\ UNCHANGED <<alienEnemyFactory, zombieEnemyFactory>>
  /\ UNCHANGED abstractFactoryOthers

\* zombieEnemyFactory.createZombieEnemy(type)
CreateZombieEnemy(type) ==
  /\ zombieEnemyFactory # Undefined
  /\ Len(enemies) < MaxEnemies
  /\ enemies' = Append(enemies, [factory |-> zombieEnemyFactory, type |-> type,
                                 enemy |-> ZombieEnemyFactory_createZombieEnemy(type)])
  /\ UNCHANGED <<alienEnemyFactory, zombieEnemyFactory>>
  /\ UNCHANGED abstractFactoryOthers

\* C18: no sub-factory creates a product outside its own family: an
\* AlienEnemyFactory returns an AlienShip for Ship and an AlienBoss for any other
\* value, a ZombieEnemyFactory returns a PawnZombie for Pawn and a ZombieBoss for
\* any other value, and ConcreteEnemyFactory returns an AlienEnemyFactory and a
\* ZombieEnemyFactory from the matching operations.
C18_ProductsStayInFamily ==
  /\ alienEnemyFactory \in {Undefined, "AlienEnemyFactory"}
  /\ zombieEnemyFactory \in {Undefined, "ZombieEnemyFactory"}
  /\ \A i \in 1..Len(enemies) :
       LET e == enemies[i] IN
       /\ e.factory \in {"AlienEnemyFactory", "ZombieEnemyFactory"}
       /\ e.factory = "AlienEnemyFactory" =>
            e.enemy = (IF e.type = 0 THEN "AlienShip" ELSE "AlienBoss")
       /\ e.factory = "ZombieEnemyFactory" =>
            e.enemy = (IF e.type = 0 THEN "PawnZombie" ELSE "ZombieBoss")

\* both factories were obtained, and each made a boss for a value outside its enum
C18_Witness ==
  /\ alienEnemyFactory = "AlienEnemyFactory"
  /\ zombieEnemyFactory = "ZombieEnemyFactory"
  /\ \E i \in 1..Len(enemies) :
       enemies[i] = [factory |-> "AlienEnemyFactory", type |-> 2, enemy |-> "AlienBoss"]
  /\ \E i \in 1..Len(enemies) :
       enemies[i] = [factory |-> "ZombieEnemyFactory", type |-> 2, enemy |-> "ZombieBoss"]
  /\ \E i \in 1..Len(enemies) : enemies[i].type = 0

AbstractFactoryNext ==
  \/ CreateAlienEnemyFactory
  \/ CreateZombieEnemyFactory
  \/ \E type \in Discriminators : CreateAlienEnemy(type)
  \/ \E type \in Discriminators : CreateZombieEnemy(type)

(***************************************************************************)
(* Builder                                                                 *)
(***************************************************************************)

\* the Hamburger objects that may be constructed, and the constructor arguments
\* tried: an optional flag left out is undefined
Hamburgers == {"lunch", "dinner"}
Breads == {"Some Bread", "Rye"}
Flags == {"ketchup", "mustard", "doubleMeat"}
OptionalFlag == {Undefined, "false"}

\* an addMustard that squeezes both bottles
Hamburger_addMustard_Both(hs, this) ==
  [hamburgers |-> [hs EXCEPT ![this].mustard = "true", ![this].ketchup = "true"],
   returned |-> this]

\* Hamburger.addKetchup(): the objects after the call and the object returned
Hamburger_addKetchup(hs, this) ==
  [hamburgers |-> [hs EXCEPT ![this].ketchup = "true"], returned |-> this]

\* Hamburger.addMustard()
Hamburger_addMustard(hs, this) ==
  [hamburgers |-> [hs EXCEPT ![this].mustard = "true"], returned |-> this]

\* Hamburger.addDoubleMeat()
Hamburger_addDoubleMeat(hs, this) ==
  [hamburgers |-> [hs EXCEPT ![this].doubleMeat = "true"], returned |-> this]

\* the method called by name
Hamburger_add(method, hs, this) ==
  IF method = "addKetchup" THEN Hamburger_addKetchup(hs, this)
  ELSE IF method = "addMustard" THEN Hamburger_addMustard(hs, this)
  ELSE Hamburger_addDoubleMeat(hs, this)

\* no Hamburger has been constructed
BuilderInit ==
  /\ hamburgers = [h \in {} |-> Undefined]
  /\ lastAdd = [method |-> "none", on |-> Undefined, returned |-> Undefined,
                before |-> [h \in {} |-> Undefined], after |-> [h \in {} |-> Undefined]]

\* new Hamburger(bread, ketchup, mustard, doubleMeat)
NewHamburger(this, bread, ketchup, mustard, doubleMeat) ==
  /\ this \notin DOMAIN hamburgers
  /\ hamburgers' = [h \in DOMAIN hamburgers \cup {this} |->
                      IF h = this
                      THEN [bread |-> bread, ketchup |-> ketchup, mustard |-> mustard,
                            doubleMeat |-> doubleMeat]
                      ELSE hamburgers[h]]
  /\ UNCHANGED lastAdd
  /\ UNCHANGED builderOthers

\* this.addKetchup(), this.addMustard() or this.addDoubleMeat()
Add(method, this) ==
  LET r == Hamburger_add(method, hamburgers, this) IN
  /\ this \in DOMAIN hamburgers
  /\ hamburgers' = r.hamburgers
  /\ lastAdd' = [method |-> method, on |-> this, returned |-> r.returned,
                 before |-> hamburgers, after |-> r.hamburgers]
  /\ UNCHANGED builderOthers

\* the field an add method is about
OwnFlag(method) ==
  IF method = "addKetchup" THEN "ketchup"
  ELSE IF method = "addMustard" THEN "mustard" ELSE "doubleMeat"

\* C19: each of addKetchup, addMustard and addDoubleMeat returns the very
\* Hamburger it was called on, sets its own flag to true and leaves bread and the
\* two other flags unchanged; no other Hamburger is touched.
C19_AddSetsOwnFlagOnly ==
  lastAdd.method # "none" =>
    LET b == lastAdd.before[lastAdd.on]
        a == lastAdd.after[lastAdd.on]
    IN /\ lastAdd.returned = lastAdd.on
       /\ a[OwnFlag(lastAdd.method)] = "true"
       /\ a.bread = b.bread
       /\ \A f \in Flags \ {OwnFlag(lastAdd.method)} : a[f] = b[f]
       /\ DOMAIN lastAdd.after = DOMAIN lastAdd.before
       /\ \A h \in DOMAIN lastAdd.before \ {lastAdd.on} :
            lastAdd.after[h] = lastAdd.before[h]

\* the end of the driver's chain: lunch has everything, dinner was left alone
C19_Witness ==
  /\ lastAdd.method = "addDoubleMeat" /\ lastAdd.on = "lunch"
  /\ lastAdd.before["lunch"] = [bread |-> "Some Bread", ketchup |-> "true",
                                mustard |-> "true", doubleMeat |-> Undefined]
  /\ "dinner" \in DOMAIN hamburgers
  /\ hamburgers["lunch"] = [bread |-> "Some Bread", ketchup |-> "true",
                            mustard |-> "true", doubleMeat |-> "true"]

BuilderNext ==
  \/ \E this \in Hamburgers, bread \in Breads :
       \E ketchup \in OptionalFlag, mustard \in OptionalFlag, doubleMeat \in OptionalFlag :
         NewHamburger(this, bread, ketchup, mustard, doubleMeat)
  \/ \E method \in {"addKetchup", "addMustard", "addDoubleMeat"}, this \in Hamburgers :
       Add(method, this)

(***************************************************************************)
(* Visitor                                                                 *)
(***************************************************************************)

\* the component objects with their classes, the visitor classes, and a bound on
\* the length of the list given to clientCode
Components == {"a1", "a2", "b1", "b2"}
ClassOf == [c \in Components |->
              IF c \in {"a1", "a2"} THEN "ConcreteComponentA" ELSE "ConcreteComponentB"]
Visitors == {"ConcreteVisitor1", "ConcreteVisitor2"}
MaxComponents == 3

ComponentLists == UNION {[1..n -> Components] : n \in 0..MaxComponents}

\* what a call did: the visitor methods invoked, the lines printed, the error thrown
Visited(calls, lines) == [calls |-> calls, lines |-> lines, threw |-> Undefined]

\* element.exclusiveMethodOfConcreteComponentA(); undefined on another class
exclusiveMethodOfConcreteComponentA(element) ==
  IF ClassOf[element] = "ConcreteComponentA" THEN "A" ELSE Undefined

\* element.specialMethodOfConcreteComponentB(); undefined on another class
specialMethodOfConcreteComponentB(element) ==
  IF ClassOf[element] = "ConcreteComponentB" THEN "B" ELSE Undefined

\* visitor.visitConcreteComponentA(element), the same in both visitor classes up
\* to the class name printed; calling the missing method is a TypeError
visitConcreteComponentA(visitor, element) ==
  LET call == [visitor |-> visitor, method |-> "visitConcreteComponentA",
               element |-> element]
  IN IF exclusiveMethodOfConcreteComponentA(element) = Undefined
     THEN [calls |-> <<call>>, lines |-> <<>>, threw |-> "TypeError"]
     ELSE Visited(<<call>>,
                  <<exclusiveMethodOfConcreteComponentA(element) \o " + " \o visitor>>)

\* visitor.visitConcreteComponentB(element)
visitConcreteComponentB(visitor, element) ==
  LET call == [visitor |-> visitor, method |-> "visitConcreteComponentB",
               element |-> element]
  IN IF specialMethodOfConcreteComponentB(element) = Undefined
     THEN [calls |-> <<call>>, lines |-> <<>>, threw |-> "TypeError"]
     ELSE Visited(<<call>>,
                  <<specialMethodOfConcreteComponentB(element) \o " + " \o visitor>>)

\* a component B that introduces itself to the visitor as an A
ConcreteComponentB_accept_AsA(this, visitor) == visitConcreteComponentA(visitor, this)

\* ConcreteComponentA.accept(visitor)
ConcreteComponentA_accept(this, visitor) == visitConcreteComponentA(visitor, this)

\* ConcreteComponentB.accept(visitor)
ConcreteComponentB_accept(this, visitor) == visitConcreteComponentB(visitor, this)

\* component.accept(visitor), dispatched on the class of the component
accept(this, visitor) ==
  IF ClassOf[this] = "ConcreteComponentA"
  THEN ConcreteComponentA_accept(this, visitor)
  ELSE ConcreteComponentB_accept(this, visitor)

\* clientCode(components, visitor): accept on each component in list order; an
\* error ends the loop
RECURSIVE clientCode(_, _)
clientCode(components, visitor) ==
  IF components = <<>> THEN Visited(<<>>, <<>>)
  ELSE LET r == accept(Head(components), visitor) IN
       IF r.threw # Undefined THEN r
       ELSE LET rest == clientCode(Tail(components), visitor) IN
            [calls |-> r.calls \o rest.calls, lines |-> r.lines \o rest.lines,
             threw |-> rest.threw]

\* nothing has been visited
VisitorInit ==
  visit = [op |-> "none", components |-> <<>>, visitor |-> Undefined,
           calls |-> <<>>, lines |-> <<>>, threw |-> Undefined]

\* component.accept(visitor)
Accept(component, visitor) ==
  LET r == accept(component, visitor) IN
  /\ visit' = [op |-> "accept", components |-> <<component>>, visitor |-> visitor,
               calls |-> r.calls, lines |-> r.lines, threw |-> r.threw]
  /\ UNCHANGED visitorOthers

\* clientCode(components, visitor)
ClientCode(components, visitor) ==
  LET r == clientCode(components, visitor) IN
  /\ visit' = [op |-> "clientCode", components |-> components, visitor |-> visitor,
               calls |-> r.calls, lines |-> r.lines, threw |-> r.threw]
  /\ UNCHANGED visitorOthers

\* the visitor method specific to a component's class
OwnVisit(component) ==
  IF ClassOf[component] = "ConcreteComponentA"
  THEN "visitConcreteComponentA" ELSE "visitConcreteComponentB"

\* C20: component.accept(visitor) invokes exactly one method of the visitor, the
\* one specific to the component's class, passing the component itself;
\* clientCode visits the components in list order, each exactly once.
C20_AcceptDispatchesOnClass ==
  visit.op # "none" =>
    /\ visit.threw = Undefined
    /\ Len(visit.calls) = Len(visit.components)
    /\ \A i \in 1..Len(visit.calls) :
         /\ visit.calls[i].element = visit.components[i]
         /\ visit.calls[i].visitor = visit.visitor
         /\ visit.calls[i].method = OwnVisit(visit.components[i])

\* the second run of the driver: an A then a B, shown to ConcreteVisitor2
C20_Witness ==
  /\ visit.op = "clientCode"
  /\ visit.components = <<"a1", "b1">>
  /\ visit.visitor = "ConcreteVisitor2"
  /\ visit.lines = <<"A + ConcreteVisitor2", "B + ConcreteVisitor2">>
  /\ Len(visit.calls) = 2

VisitorNext ==
  \/ \E component \in Components, visitor \in Visitors : Accept(component, visitor)
  \/ \E components \in ComponentLists, visitor \in Visitors :
       ClientCode(components, visitor)

(***************************************************************************)
(* The programs together                                                   *)
(***************************************************************************)

Init ==
  /\ ChainInit
  /\ CommandInit
  /\ RangeInit
  /\ SingletonInit
  /\ FlyweightInit
  /\ ObserverInit
  /\ TemplateInit
  /\ BuffetInit
  /\ FacadeInit
  /\ ProxyInit
  /\ HumanInit
  /\ FactoryInit
  /\ AbstractFactoryInit
  /\ BuilderInit
  /\ VisitorInit

SpecChain == Init /\ [][ChainNext]_vars
SpecCommand == Init /\ [][CommandNext]_vars
SpecRange == Init /\ [][RangeNext]_vars
SpecSingleton == Init /\ [][SingletonNext]_vars
SpecFlyweight == Init /\ [][FlyweightNext]_vars
SpecObserver == Init /\ [][ObserverNext]_vars
SpecTemplate == Init /\ [][TemplateNext]_vars
SpecBuffet == Init /\ [][BuffetNext]_vars
SpecTraversal == Init /\ [][TraversalNext]_vars
SpecFacade == Init /\ [][FacadeNext]_vars
SpecProxy == Init /\ [][ProxyNext]_vars
SpecState == Init /\ [][HumanNext]_vars
SpecFactory == Init /\ [][FactoryNext]_vars
SpecAbstractFactory == Init /\ [][AbstractFactoryNext]_vars
SpecBuilder == Init /\ [][BuilderNext]_vars
SpecVisitor == Init /\ [][VisitorNext]_vars

====
